---- MODULE Spec2Model ----
(***************************************************************************)
(* The chat session layer of the fitnesse frontend:                        *)
(*   frontend/src/components/Chat/ChatContainer.tsx  (ChatContainer)       *)
(*   frontend/src/components/Chat/ChatInput.tsx      (ChatInput)           *)
(* One ChatContainer is mounted at a time (one route at a time); requests  *)
(* of an instance that was unmounted stay in flight and their              *)
(* continuations still run: React drops their setState calls, but their    *)
(* localStorage accesses and prop callbacks execute.  The page mounts with *)
(* the ChatContainer, so the conversationId prop is undefined at mount.    *)
(* The backend is an external HTTP service; its part (conversation         *)
(* creation, transcripts, 404 for unknown/expired ids) follows spec.md §6. *)
(*                                                                         *)
(* The meal-log workflow of the Nutrition page:                            *)
(*   frontend/src/pages/Nutrition.tsx  (Nutrition)                         *)
(*   frontend/src/lib/state.ts         (useAppState)                       *)
(* with the pages that share its appState query and invalidate it:         *)
(*   frontend/src/pages/Training.tsx   (Training)                          *)
(*   frontend/src/pages/Goals.tsx      (Goals)                             *)
(* Spec is the chat, LiveSpec the chat with every request answered,        *)
(* MealSpec the pages; the chat and the pages leave each other's variables *)
(* as they start.                                                          *)
(***************************************************************************)
EXTENDS Integers, Sequences, FiniteSets, TLC

\* ---------------------------------------------------------------- bounds
MaxOps == 3      \* mounts of ChatContainer plus POST /api/chat requests in one behaviour

MaxMealOps == 4  \* mounts of Nutrition, mutations started and field edits in one behaviour

\* ------------------------------------------------------------- constants
\* undefined / null, for strings
None == "undefined"

\* undefined / null, for conversation ids (the server's ids are 1..MaxOps)
NoConv == 0

\* type AgentType
AgentType == {"onboarding", "coordination", "nutritionist", "trainer"}

\* a metadata.agent_type string that is no AgentType (the cast does not check)
UnknownAgent == "physio"

\* metadata?.agent_type of a response: absent, one of the four, or another string
MetaAgentValues == AgentType \cup {None, UnknownAgent}

STORAGE_KEYS ==
  [a \in AgentType |->
     CASE a = "onboarding" -> "fitnesse_chat_onboarding_id"
       [] a = "coordination" -> "fitnesse_chat_coordination_id"
       [] a = "nutritionist" -> "fitnesse_chat_nutrition_id"
       [] a = "trainer" -> "fitnesse_chat_training_id"]

StorageKeyNames == {STORAGE_KEYS[a] : a \in AgentType}

\* STORAGE_KEYS[currentAgent]: undefined for a string that is no key of the record
StorageKeyOf(agent) == IF agent \in AgentType THEN STORAGE_KEYS[agent] ELSE None

ConvIds == 1..MaxOps

\* the values of Date.now(): the code only builds ids from it, and two calls
\* can return the same millisecond, which makes every local id collide
Times == {0}

\* what the user can have typed into the textarea when submitting
InputTexts == {"  ", " hi "}

\* String.prototype.trim on the inputs above
Trim(t) == CASE t = "  " -> "" [] t = " hi " -> "hi"

DefaultErrorText == "Something went wrong. Try again."

\* error.response?.data?.detail of a failed POST: absent or a server text
ErrorDetails == {None, "Agent unavailable"}

\* the state of the browser's storage, the same for the whole session
StorageStates == {"ok", "full", "blocked"}

\* the props of the <ChatContainer/> elements of the pages
ChatProps ==
  { \* Onboarding (first version): conversationId, onConversationStart, defaults
    [initialAgent |-> "onboarding", lockAgent |-> FALSE, showAgentSwitcher |-> TRUE,
     onConversationStart |-> TRUE],
    \* Onboarding, Goals
    [initialAgent |-> "onboarding", lockAgent |-> FALSE, showAgentSwitcher |-> FALSE,
     onConversationStart |-> TRUE],
    \* Nutrition
    [initialAgent |-> "nutritionist", lockAgent |-> TRUE, showAgentSwitcher |-> FALSE,
     onConversationStart |-> FALSE],
    \* Training
    [initialAgent |-> "trainer", lockAgent |-> TRUE, showAgentSwitcher |-> FALSE,
     onConversationStart |-> FALSE] }

VARIABLES
  \* browser
  localStorage,              \* storage key -> conversation id or NoConv
  storage,                   \* "ok" | "full" (setItem throws) | "blocked" (every access throws)
  \* the mounted ChatContainer
  phase,                     \* "unmounted" | "mounted" | "crashed" (render threw)
  inst,                      \* number of the current instance
  initialAgent, lockAgent, showAgentSwitcher,     \* props
  hasOnConversationStart,    \* props: the page passes onConversationStart
  messages, conversationId, isLoading, isLoadingHistory, currentAgent,
  fetchedConversationIdRef,
  \* network
  sends,                     \* POST /api/chat in flight
  fetches,                   \* GET /api/chat/conversations/{id}/messages in flight
  \* backend
  live,                      \* conversation ids the server knows
  transcript,                \* conversation id -> messages
  convAgent,                 \* conversation id -> agent_type of the conversation
  nextConv, nextMsg,
  \* observation
  posts,                     \* POSTs issued so far
  gets,                      \* conversation id -> GETs issued in the session
  instGets,                  \* conversation id -> GETs issued by the current instance
  loaded,                    \* conversation ids whose history was loaded in the session
  ev,                        \* the step just taken
  \* the Nutrition page
  mealPhase,                 \* "unmounted" | "mounted"
  mealInst,                  \* number of the current page instance (Nutrition, Training, Goals)
  mealText, parsed, confirmed, savedMessage,
  parseStatus, saveStatus, genStatus,   \* status of the three useMutation observers
  saveAwait, genAwait,       \* onSuccess awaits invalidateQueries
  \* the appState query of the QueryClient
  appData, appStatus, appFetching, appStale,
  \* network
  parseReqs,                 \* POST /api/logs/meals/parse in flight
  saveReqs,                  \* POST /api/logs/meals in flight
  genReqs,                   \* POST /api/plans/meal in flight
  \* backend
  srvHasPlan, srvOnboarded,  \* what GET /api/state answers
  mealLogs,                  \* the committed log entries
  \* the Training and Goals pages
  otherPage,                 \* "none" | "training" | "goals": the one that is mounted
  otherStatus, otherAwait,   \* status of the page's useMutation observer
  chatComplete, checkInText, \* useState of Goals
  otherReqs,                 \* POST /api/plans/workout and POST /api/logs/goals in flight
  srvHasWorkoutPlan,         \* backend: training.has_plan
  \* observation
  mealOps,                   \* mounts, mutations started and field edits so far
  seenOnboarded,             \* a page has rendered with onboardingComplete true
  parsedFrom                 \* the text of the parse request that produced parsed

pageVars == <<mealText, parsed, confirmed, savedMessage>>
mutationVars == <<parseStatus, saveStatus, genStatus, saveAwait, genAwait>>
queryVars == <<appData, appStatus, appFetching, appStale>>
mealReqVars == <<parseReqs, saveReqs, genReqs>>
mealServerVars == <<srvHasPlan, srvOnboarded, mealLogs>>
otherVars == <<otherPage, otherStatus, otherAwait, chatComplete, checkInText, otherReqs,
               srvHasWorkoutPlan>>
mealVars == <<mealPhase, mealInst, pageVars, mutationVars, queryVars, mealReqVars,
              mealServerVars, otherVars, mealOps, seenOnboarded, parsedFrom>>

browserVars == <<localStorage, storage>>
propVars == <<initialAgent, lockAgent, showAgentSwitcher, hasOnConversationStart>>
chatVars == <<messages, conversationId, isLoading, isLoadingHistory, currentAgent,
              fetchedConversationIdRef>>
serverVars == <<live, transcript, convAgent, nextConv, nextMsg>>
obsVars == <<posts, gets, instGets, loaded>>

vars == <<localStorage, storage, phase, inst, initialAgent, lockAgent,
          showAgentSwitcher, hasOnConversationStart, messages, conversationId,
          isLoading, isLoadingHistory, currentAgent, fetchedConversationIdRef, sends, fetches, live, transcript, convAgent, nextConv, nextMsg, posts, gets,
          instGets, loaded, ev, mealVars>>

\* the chat's variables without the step record
chatAll == <<localStorage, storage, phase, inst, propVars, chatVars, sends, fetches,
             serverVars, obsVars>>

\* ------------------------------------------------------------- messages
TempId(t) == <<"temp", t>>
ErrorId(t) == <<"error", t>>
ServerId(n) == <<"srv", n>>

\* the optimistic user message of handleSendMessage
OptimisticMessage(text, t) ==
  [id |-> TempId(t), role |-> "user", content |-> text, created_at |-> <<"client", t>>]

\* the synthetic assistant message of the catch branch
ErrorMessage(detail, t) ==
  [id |-> ErrorId(t), role |-> "assistant",
   content |-> <<"warning", IF detail = None THEN DefaultErrorText ELSE detail>>,
   created_at |-> <<"client", t>>]

\* the two messages the server stores and returns for one POST
ServerUserMessage(text, n) ==
  [id |-> ServerId(n), role |-> "user", content |-> text, created_at |-> <<"server", n>>]

ServerAssistantMessage(text, n) ==
  [id |-> ServerId(n), role |-> "assistant", content |-> <<"reply", text>>,
   created_at |-> <<"server", n>>]

\* prev.filter((msg) => msg.id !== tempUserMessageId)
WithoutTemp(prev, tempUserMessageId) ==
  SelectSeq(prev, LAMBDA msg : msg.id # tempUserMessageId)

\* ev: the step just taken. own: the continuation ran for the mounted instance;
\* meta: metadata.agent_type of the response; started: the id onConversationStart
\* was called with; thrown: a localStorage access threw in the step
NoEv == [op |-> "init", own |-> FALSE, meta |-> None, started |-> NoConv,
         thrown |-> FALSE]

Event(op) == [NoEv EXCEPT !.op = op]

\* ------------------------------------------------- the Nutrition page
\* undefined, for a number (a missing key of estimate or of confirmed)
Unset == -1

\* null, for a number of the estimate
NullNum == -2

\* the keys of estimate and of confirmed
Fields == {"calories", "protein_g", "carbs_g", "fat_g"}

\* useState<MealParseResult | null>(null)
NoParse == [null |-> TRUE]

\* the ParseResults the server answers with; an estimate that is missing reads
\* as an estimate without keys (data.parsed?.estimate ?? {})
ParseResults ==
  { [normalized_text |-> "Eggs",
     estimate |-> [f \in Fields |->
                     CASE f = "calories" -> 850 [] f = "protein_g" -> 0
                       [] f = "carbs_g" -> NullNum [] f = "fat_g" -> Unset]],
    [normalized_text |-> None, estimate |-> [f \in Fields |-> Unset]] }

\* useState({}) of confirmed
NoConfirmed == [f \in Fields |-> Unset]

\* what the user can have typed into the meal textarea
MealTexts == {"", " ", "eggs ", "rice"}

\* mealText.trim()
MealTrim(t) == CASE t = "" -> "" [] t = " " -> "" [] t = "eggs " -> "eggs" [] t = "rice" -> "rice"

\* e.target.value of a number input
NumberInputs == {"", "0", "900"}

\* e.target.value === '' ? undefined : Number(e.target.value)
InputNumber(v) ==
  CASE v = "" -> Unset [] v = "0" -> 0 [] v = "850" -> 850 [] v = "900" -> 900

\* value={confirmed[f.key] ?? ''}: what the number input shows
InputValue(n) ==
  CASE n = Unset -> "" [] n = 0 -> "0" [] n = 850 -> "850" [] n = 900 -> "900"

\* data of the appState query before the first answer
NoData == [none |-> TRUE]

\* the Nutrition page and the query cache before the page is opened
MealStart ==
  /\ mealPhase = "unmounted"
  /\ mealInst = 0
  /\ mealText = ""
  /\ parsed = NoParse
  /\ confirmed = NoConfirmed
  /\ savedMessage = None
  /\ parseStatus = "idle"
  /\ saveStatus = "idle"
  /\ genStatus = "idle"
  /\ saveAwait = FALSE
  /\ genAwait = FALSE
  /\ appData = NoData
  /\ appStatus = "pending"
  /\ appFetching = FALSE
  /\ appStale = FALSE
  /\ parseReqs = {}
  /\ saveReqs = {}
  /\ genReqs = {}
  /\ mealLogs = <<>>
  /\ otherPage = "none"
  /\ otherStatus = "idle"
  /\ otherAwait = FALSE
  /\ chatComplete = FALSE
  /\ checkInText = ""
  /\ otherReqs = {}
  /\ srvHasWorkoutPlan = FALSE
  /\ mealOps = 0
  /\ seenOnboarded = FALSE
  /\ parsedFrom = None

\* ---------------------------------------------------------------- Init
\* the chat before the first mount
ChatStart ==
  /\ localStorage = [k \in StorageKeyNames |-> NoConv]
  /\ phase = "unmounted"
  /\ inst = 0
  /\ initialAgent = "onboarding"
  /\ lockAgent = FALSE
  /\ showAgentSwitcher = TRUE
  /\ hasOnConversationStart = FALSE
  /\ messages = <<>>
  /\ conversationId = NoConv
  /\ isLoading = FALSE
  /\ isLoadingHistory = FALSE
  /\ currentAgent = "onboarding"
  /\ fetchedConversationIdRef = NoConv
  /\ sends = {}
  /\ fetches = {}
  /\ live = {}
  /\ transcript = [c \in ConvIds |-> <<>>]
  /\ convAgent = [c \in ConvIds |-> None]
  /\ nextConv = 1
  /\ nextMsg = 1
  /\ posts = 0
  /\ gets = [c \in ConvIds |-> 0]
  /\ instGets = [c \in ConvIds |-> 0]
  /\ loaded = {}
  /\ ev = NoEv

Init ==
  /\ storage \in StorageStates
  /\ ChatStart
  /\ MealStart
  /\ srvHasPlan = FALSE
  /\ srvOnboarded = FALSE

\* ------------------------------------------------- localStorage accesses
SetItemThrows == storage # "ok"

GetItemThrows == storage = "blocked"

RemoveItemThrows == storage = "blocked"

\* --------------------------------------------------------- history effect
\* DepsChanged of an effect without dependency array: it runs after every render
DepsChangedAlways(old, new) == TRUE

\* useEffect(..., [conversationId]): the effect runs after the first render and
\* after a render in which conversationId differs from the previous render
DepsChanged(old, new) == old # new

\* if (!id || fetchedConversationIdRef.current === id) return;
ShouldFetch(id, ref) == id # NoConv /\ ref # id

\* The history-load effect, run (or not) after the render an action causes.
\* ref, lh, ig, fs: fetchedConversationIdRef, isLoadingHistory, instGets and fetches as the
\* action leaves them before the effect; i: the instance; storageKey: the
\* STORAGE_KEYS[initialAgent] of the render.
HistoryEffect(run, id, ref, lh, ig, fs, i, storageKey) ==
  IF run /\ ShouldFetch(id, ref)
  THEN /\ fetchedConversationIdRef' = id
       /\ isLoadingHistory' = TRUE
       /\ fetches' = fs \cup
            {[inst |-> i, id |-> id, storageKey |-> storageKey]}
       /\ gets' = [gets EXCEPT ![id] = @ + 1]
       /\ instGets' = [ig EXCEPT ![id] = @ + 1]
  ELSE /\ fetchedConversationIdRef' = ref
       /\ isLoadingHistory' = lh
       /\ fetches' = fs
       /\ gets' = gets
       /\ instGets' = ig

\* ------------------------------------------------------- mount / unmount
\* A page renders <ChatContainer .../>: useState initialisers, then the effects.
Mount(props) ==
  /\ phase = "unmounted"
  /\ inst + posts < MaxOps
  /\ inst' = inst + 1
  /\ initialAgent' = props.initialAgent
  /\ lockAgent' = props.lockAgent
  /\ showAgentSwitcher' = props.showAgentSwitcher
  /\ hasOnConversationStart' = props.onConversationStart
  /\ LET initialConversationId == NoConv
         storageKey == STORAGE_KEYS[props.initialAgent]
         thrown == initialConversationId = NoConv /\ GetItemThrows
         id == IF initialConversationId # NoConv THEN initialConversationId
               ELSE IF thrown THEN NoConv ELSE localStorage[storageKey]
     IN /\ phase' = IF thrown THEN "crashed" ELSE "mounted"
        /\ messages' = <<>>
        /\ conversationId' = id
        /\ isLoading' = FALSE
        /\ currentAgent' = props.initialAgent
        /\ HistoryEffect(~thrown, id, NoConv, FALSE, [c \in ConvIds |-> 0], fetches,
                         inst + 1, storageKey)
        /\ ev' = [Event("mount") EXCEPT !.own = TRUE, !.thrown = thrown]
  /\ UNCHANGED <<mealVars, browserVars, sends, serverVars, posts, loaded>>

\* the route changes: the instance is gone, its requests stay in flight
Unmount ==
  /\ phase = "mounted"
  /\ phase' = "unmounted"
  /\ ev' = Event("unmount")
  /\ UNCHANGED <<mealVars, browserVars, inst, propVars, chatVars, sends, fetches,
                 serverVars, obsVars>>

\* ------------------------------------------------------------ the server
\* POST /api/chat is answered with 200 for a request without conversation_id
\* (a conversation is created) or with the id of a known conversation
CanHandle(s) ==
  IF s.conversationId = NoConv THEN nextConv \in ConvIds ELSE s.conversationId \in live

\* conversation_id of the response
ResponseConversationId(s) ==
  IF s.conversationId = NoConv THEN nextConv ELSE s.conversationId

\* the server stores the user's message and the assistant's reply; a created
\* conversation gets the agent_type of the request
ServerHandle(s) ==
  LET cid == ResponseConversationId(s)
  IN /\ live' = live \cup {cid}
     /\ convAgent' = IF s.conversationId = NoConv
                      THEN [convAgent EXCEPT ![cid] = s.currentAgent]
                      ELSE convAgent
     /\ transcript' = [transcript EXCEPT ![cid] =
                         @ \o <<ServerUserMessage(s.message, nextMsg),
                                ServerAssistantMessage(s.message, nextMsg + 1)>>]
     /\ nextConv' = IF s.conversationId = NoConv THEN nextConv + 1 ELSE nextConv
     /\ nextMsg' = nextMsg + 2

\* ---------------------------------------------------------- agent switch
\* handleAgentSwitch, reachable through the dropdown when showAgentSwitcher
handleAgentSwitch(agent) ==
  /\ phase = "mounted"
  /\ showAgentSwitcher
  /\ currentAgent' = agent
  /\ HistoryEffect(DepsChanged(conversationId, conversationId), conversationId,
                   fetchedConversationIdRef, isLoadingHistory, instGets, fetches, inst,
                   STORAGE_KEYS[initialAgent])
  /\ ev' = [Event("handleAgentSwitch") EXCEPT !.own = TRUE]
  /\ UNCHANGED <<mealVars, browserVars, phase, inst, propVars, messages, conversationId,
                 isLoading, sends, serverVars, posts, loaded>>

\* ------------------------------------------------------------------ send
\* InputDisabled without the isLoading disjunct
InputDisabledHistoryOnly == isLoadingHistory

\* InputDisabled without the isLoadingHistory disjunct
InputDisabledSendOnly == isLoading

\* disabled={isLoading || isLoadingHistory}
InputDisabled == isLoading \/ isLoadingHistory

\* handleSendMessage up to the await: optimistic echo, isLoading, the POST;
\* t: Date.now()
handleSendMessage(message, t) ==
  LET tempUserMessageId == TempId(t)
      request == [inst |-> inst, onConversationStart |-> hasOnConversationStart,
                  tempUserMessageId |-> tempUserMessageId, message |-> message,
                  conversationId |-> conversationId, currentAgent |-> currentAgent,
                  lockAgent |-> lockAgent]
  IN /\ inst + posts < MaxOps
     /\ messages' = Append(messages, OptimisticMessage(message, t))
     /\ isLoading' = TRUE
     /\ sends' = sends \cup {request}
     /\ posts' = posts + 1
     /\ HistoryEffect(DepsChanged(conversationId, conversationId), conversationId,
                      fetchedConversationIdRef, isLoadingHistory, instGets, fetches, inst,
                   STORAGE_KEYS[initialAgent])
     /\ UNCHANGED <<conversationId, currentAgent, loaded>>

\* ChatInput.handleSubmit: the form is submitted with text in the textarea
handleSubmit(text, t) ==
  /\ phase = "mounted"
  /\ IF Trim(text) # "" /\ ~InputDisabled
     THEN /\ handleSendMessage(Trim(text), t)
          /\ ev' = [Event("handleSubmit") EXCEPT !.own = TRUE]
     ELSE /\ ev' = [Event(IF Trim(text) = "" THEN "submitEmpty" ELSE "submitDisabled")
                      EXCEPT !.own = TRUE]
          /\ UNCHANGED <<chatVars, sends, fetches, obsVars>>
  /\ UNCHANGED <<mealVars, browserVars, phase, inst, propVars, serverVars>>

\* NextAgent without the lockAgent check
NextAgentIgnoresLock(lock, current, metaAgent) ==
  IF metaAgent # None THEN metaAgent ELSE current

\* NextAgent that never follows the metadata
NextAgentKeepsCurrent(lock, current, metaAgent) == current

\* if (!lockAgent && metadata?.agent_type) setCurrentAgent(metadata.agent_type as AgentType)
NextAgent(lock, current, metaAgent) ==
  IF ~lock /\ metaAgent # None THEN metaAgent ELSE current

\* PersistKey with the agent active when the response arrives
PersistKeyAtResponse(s) == StorageKeyOf(currentAgent)

\* const key = STORAGE_KEYS[currentAgent], with the currentAgent of the render
\* whose handleSendMessage was called
PersistKey(s) == StorageKeyOf(s.currentAgent)

\* if (!conversationId && conversation_id), with the conversationId of that render
IsNewConversation(s, conversation_id) ==
  s.conversationId = NoConv /\ conversation_id # NoConv

\* Reconcile without the filter on the temporary id
ReconcileKeepsTemp(prev, tempUserMessageId, user_message, assistant_message) ==
  prev \o <<user_message, assistant_message>>

\* setMessages((prev) => [...withoutTemp, user_message, assistant_message])
Reconcile(prev, tempUserMessageId, user_message, assistant_message) ==
  WithoutTemp(prev, tempUserMessageId) \o <<user_message, assistant_message>>

\* RollBack without the filter on the temporary id
RollBackKeepsTemp(prev, tempUserMessageId, detail, t) ==
  Append(prev, ErrorMessage(detail, t))

\* the catch branch: drop the optimistic message, append the error message;
\* t: Date.now()
RollBack(prev, tempUserMessageId, detail, t) ==
  Append(WithoutTemp(prev, tempUserMessageId), ErrorMessage(detail, t))

\* the render throws on agentInfo[currentAgent] when currentAgent is no AgentType
RenderThrows(agent) == agent \notin AgentType

\* the POST is answered with 200: the rest of handleSendMessage runs
SendSuccess(s, metaAgent, t) ==
  /\ s \in sends
  /\ CanHandle(s)
  /\ ServerHandle(s)
  /\ sends' = sends \ {s}
  /\ LET conversation_id == ResponseConversationId(s)
         user_message == ServerUserMessage(s.message, nextMsg)
         assistant_message == ServerAssistantMessage(s.message, nextMsg + 1)
         own == phase = "mounted" /\ s.inst = inst
         isNew == IsNewConversation(s, conversation_id)
         key == PersistKey(s)
         thrown == isNew /\ key # None /\ SetItemThrows
         started == IF isNew /\ s.onConversationStart THEN conversation_id ELSE NoConv
     IN /\ localStorage' =
             IF isNew /\ key # None /\ ~thrown
             THEN [localStorage EXCEPT ![key] = conversation_id]
             ELSE localStorage
        /\ IF own
           THEN /\ currentAgent' = NextAgent(s.lockAgent, currentAgent, metaAgent)
                /\ conversationId' = IF isNew THEN conversation_id ELSE conversationId
                /\ messages' =
                     IF thrown
                     THEN RollBack(messages, s.tempUserMessageId, None, t)
                     ELSE Reconcile(messages, s.tempUserMessageId, user_message,
                                    assistant_message)
                /\ isLoading' = FALSE
                /\ phase' = IF RenderThrows(currentAgent') THEN "crashed" ELSE phase
                /\ HistoryEffect(phase' = "mounted"
                                   /\ DepsChanged(conversationId, conversationId'),
                                 conversationId', fetchedConversationIdRef,
                                 isLoadingHistory, instGets, fetches, inst,
                   STORAGE_KEYS[initialAgent])
           ELSE UNCHANGED <<phase, chatVars, fetches, gets, instGets>>
        /\ ev' = [Event("sendSuccess") EXCEPT !.own = own, !.meta = metaAgent,
                    !.started = started, !.thrown = thrown]
  /\ UNCHANGED <<mealVars, storage, inst, propVars, posts, loaded>>

\* the POST fails: no answer (the server may have handled the request) or an
\* error answer with or without a detail text
SendFail(s, handled, detail, t) ==
  /\ s \in sends
  /\ handled => (CanHandle(s) /\ detail = None)
  /\ IF handled THEN ServerHandle(s) ELSE UNCHANGED serverVars
  /\ sends' = sends \ {s}
  /\ LET own == phase = "mounted" /\ s.inst = inst
     IN /\ IF own
           THEN /\ messages' = RollBack(messages, s.tempUserMessageId, detail, t)
                /\ isLoading' = FALSE
                /\ HistoryEffect(DepsChanged(conversationId, conversationId),
                                 conversationId, fetchedConversationIdRef,
                                 isLoadingHistory, instGets, fetches, inst,
                   STORAGE_KEYS[initialAgent])
                /\ UNCHANGED <<conversationId, currentAgent>>
           ELSE UNCHANGED <<chatVars, fetches, gets, instGets>>
        /\ ev' = [Event("sendFail") EXCEPT !.own = own]
  /\ UNCHANGED <<mealVars, browserVars, phase, inst, propVars, posts, loaded>>

\* ---------------------------------------------------------- history load
\* .then: the GET is answered with the messages of the conversation
FetchSuccess(f) ==
  /\ f \in fetches
  /\ f.id \in live
  /\ LET own == phase = "mounted" /\ f.inst = inst
         list == transcript[f.id]
     IN /\ IF own
           THEN /\ messages' = list
                /\ loaded' = loaded \cup {f.id}
                /\ HistoryEffect(DepsChanged(conversationId, conversationId),
                                 conversationId, fetchedConversationIdRef, FALSE,
                                 instGets, fetches \ {f}, inst,
                                 STORAGE_KEYS[initialAgent])
                /\ UNCHANGED <<conversationId, isLoading, currentAgent>>
           ELSE /\ fetches' = fetches \ {f}
                /\ UNCHANGED <<chatVars, gets, instGets, loaded>>
        /\ ev' = [Event("fetchSuccess") EXCEPT !.own = own]
  /\ UNCHANGED <<mealVars, browserVars, phase, inst, propVars, sends, serverVars,
                 posts>>

\* .catch with err.response.status === 404: the server does not know the id, or
\* the conversation has expired by the time the GET arrives
Fetch404(f) ==
  /\ f \in fetches
  /\ live' = live \ {f.id}
  /\ LET own == phase = "mounted" /\ f.inst = inst
         thrown == f.storageKey # None /\ RemoveItemThrows
     IN /\ localStorage' =
             IF f.storageKey # None /\ ~thrown
             THEN [localStorage EXCEPT ![f.storageKey] = NoConv]
             ELSE localStorage
        /\ IF own
           THEN /\ conversationId' = IF thrown THEN conversationId ELSE NoConv
                /\ HistoryEffect(DepsChanged(conversationId, conversationId'),
                                 conversationId', NoConv, FALSE, instGets,
                                 fetches \ {f}, inst, STORAGE_KEYS[initialAgent])
                /\ UNCHANGED <<messages, isLoading, currentAgent>>
           ELSE /\ fetches' = fetches \ {f}
                /\ UNCHANGED <<chatVars, gets, instGets>>
        /\ ev' = [Event("fetch404") EXCEPT !.own = own, !.thrown = thrown]
  /\ UNCHANGED <<mealVars, storage, phase, inst, propVars, sends, transcript, convAgent,
                 nextConv, nextMsg, posts, loaded>>

\* .catch with any other failure of the GET
FetchError(f) ==
  /\ f \in fetches
  /\ LET own == phase = "mounted" /\ f.inst = inst
     IN /\ IF own
           THEN /\ HistoryEffect(DepsChanged(conversationId, conversationId),
                                 conversationId, NoConv, FALSE, instGets,
                                 fetches \ {f}, inst, STORAGE_KEYS[initialAgent])
                /\ UNCHANGED <<messages, conversationId, isLoading, currentAgent>>
           ELSE /\ fetches' = fetches \ {f}
                /\ UNCHANGED <<chatVars, gets, instGets>>
        /\ ev' = [Event("fetchError") EXCEPT !.own = own]
  /\ UNCHANGED <<mealVars, browserVars, phase, inst, propVars, sends, serverVars,
                 posts, loaded>>

\* ------------------------------------------------------------------ Next
Next ==
  \/ \E props \in ChatProps : Mount(props)
  \/ Unmount
  \/ \E agent \in AgentType : handleAgentSwitch(agent)
  \/ \E text \in InputTexts, t \in Times : handleSubmit(text, t)
  \/ \E s \in sends, metaAgent \in MetaAgentValues, t \in Times :
       SendSuccess(s, metaAgent, t)
  \/ \E s \in sends, handled \in BOOLEAN, detail \in ErrorDetails, t \in Times :
       SendFail(s, handled, detail, t)
  \/ \E f \in fetches : FetchSuccess(f)
  \/ \E f \in fetches : Fetch404(f)
  \/ \E f \in fetches : FetchError(f)

Spec == Init /\ [][Next]_vars

\* ---------------------------------------------------------- fairness
\* the server (or the transport's timeout) answers a POST that is in flight
AnswerSend ==
  \/ \E s \in sends, metaAgent \in MetaAgentValues, t \in Times :
       SendSuccess(s, metaAgent, t)
  \/ \E s \in sends, handled \in BOOLEAN, detail \in ErrorDetails, t \in Times :
       SendFail(s, handled, detail, t)

\* the server (or the transport's timeout) answers a GET that is in flight
AnswerFetch ==
  \/ \E f \in fetches : FetchSuccess(f)
  \/ \E f \in fetches : Fetch404(f)
  \/ \E f \in fetches : FetchError(f)

\* the chat with every request answered eventually
LiveSpec == Init /\ [][Next]_vars /\ WF_vars(AnswerSend) /\ WF_vars(AnswerFetch)

\* ======================================================================
\* The Nutrition page (meal log)
\* ======================================================================
\* data?.nutrition.has_plan ?? false
hasMealPlan == IF appData = NoData THEN FALSE ELSE appData.has_plan

\* data?.onboarding_complete ?? false
onboardingComplete == IF appData = NoData THEN FALSE ELSE appData.onboarding_complete

\* isLoading of useAppState(): the first fetch of a query without data
AppIsLoading == appStatus = "pending" /\ appFetching

\* useMemo(() => hasMealPlan && !isLoading)
canLogMeal == hasMealPlan /\ ~AppIsLoading

\* disabled of the textarea
TextareaDisabled ==
  ~canLogMeal \/ parseStatus = "pending" \/ saveStatus = "pending"

\* LogMealDisabled without the saveMealMutation.isPending disjunct
LogMealDisabledParseOnly ==
  ~canLogMeal \/ MealTrim(mealText) = "" \/ parseStatus = "pending"

\* disabled of the Log meal button
LogMealDisabled ==
  \/ ~canLogMeal
  \/ MealTrim(mealText) = ""
  \/ parseStatus = "pending"
  \/ saveStatus = "pending"

\* ParsedPanelShown that renders the panel always
ParsedPanelAlways == TRUE

\* {parsed ? (...) : null}: the panel with the fields, Confirm & Save and Cancel
ParsedPanelShown == parsed # NoParse

\* disabled of Confirm & Save and of Cancel
ConfirmDisabled == saveStatus = "pending"

\* Seed that reads a missing or null number as 0
SeedZero(result) ==
  [f \in Fields |->
     IF result.estimate[f] \in {Unset, NullNum} THEN 0 ELSE result.estimate[f]]

\* setConfirmed({calories: est.calories ?? undefined, ...})
Seed(result) ==
  [f \in Fields |->
     IF result.estimate[f] \in {Unset, NullNum} THEN Unset ELSE result.estimate[f]]

\* the body of POST /api/logs/meals
CommitBody ==
  [raw_text |-> mealText,
   parsed_data |-> parsed,
   confirmed_data |->
     [normalized_text |-> IF parsed = NoParse \/ parsed.normalized_text = None
                          THEN MealTrim(mealText) ELSE parsed.normalized_text,
      fields |-> confirmed]]

\* what the "Log a meal" panel renders: the saved banner, the textarea, the
\* Log meal button and the parsed panel; no element reads the error or the
\* isError of parseMealMutation or saveMealMutation
MealPanelShows ==
  {"textarea", "logMealButton"}
    \cup (IF savedMessage # None THEN {"savedMessage"} ELSE {})
    \cup (IF ParsedPanelShown THEN {"parsedPanel"} ELSE {})

\* Invalidate that does nothing
InvalidateSkipped == UNCHANGED <<appFetching, appStale>>

\* a mounted page observes the appState query (Nutrition, Training and Goals
\* call useAppState; the Onboarding page does not)
AppObserved == mealPhase = "mounted" \/ otherPage # "none"

\* queryClient.invalidateQueries({queryKey: ['appState']}): the query is
\* refetched when a page observes it and marked stale otherwise
Invalidate ==
  IF AppObserved
  THEN appFetching' = TRUE /\ appStale' = appStale
  ELSE appFetching' = appFetching /\ appStale' = TRUE

\* the Nutrition route is opened: useState initialisers, idle mutations, and
\* useQuery fetches when there is no data or the data is stale (staleTime)
MealMount(stale) ==
  /\ mealPhase = "unmounted"
  /\ otherPage = "none"
  /\ mealOps < MaxMealOps
  /\ mealPhase' = "mounted"
  /\ mealInst' = mealInst + 1
  /\ mealOps' = mealOps + 1
  /\ mealText' = ""
  /\ parsed' = NoParse
  /\ confirmed' = NoConfirmed
  /\ savedMessage' = None
  /\ parseStatus' = "idle" /\ saveStatus' = "idle" /\ genStatus' = "idle"
  /\ saveAwait' = FALSE /\ genAwait' = FALSE
  /\ appFetching' = (appFetching \/ appData = NoData \/ appStale \/ stale)
  /\ seenOnboarded' = (seenOnboarded \/ onboardingComplete)
  /\ parsedFrom' = None
  /\ ev' = [Event("mealMount") EXCEPT !.own = TRUE]
  /\ UNCHANGED <<chatAll, otherVars, appData, appStatus, appStale, mealReqVars,
                 mealServerVars>>

\* the route changes: requests and the query's fetch stay in flight
MealUnmount ==
  /\ mealPhase = "mounted"
  /\ mealPhase' = "unmounted"
  /\ ev' = Event("mealUnmount")
  /\ UNCHANGED <<chatAll, otherVars, seenOnboarded, parsedFrom, mealInst, pageVars, mutationVars, queryVars, mealReqVars,
                 mealServerVars, mealOps>>

\* the promise of invalidateQueries settles: the awaiting onSuccess returns
\* and the mutation leaves isPending
AwaitsSettle ==
  /\ saveStatus' = IF saveAwait THEN "success" ELSE saveStatus
  /\ genStatus' = IF genAwait THEN "success" ELSE genStatus
  /\ otherStatus' = IF otherAwait THEN "success" ELSE otherStatus
  /\ saveAwait' = FALSE
  /\ genAwait' = FALSE
  /\ otherAwait' = FALSE

\* GET /api/state is answered
AppFetchSuccess ==
  /\ appFetching
  /\ appData' = [has_plan |-> srvHasPlan, training_has_plan |-> srvHasWorkoutPlan,
                  onboarding_complete |-> srvOnboarded]
  /\ appStatus' = "success"
  /\ appFetching' = FALSE
  /\ appStale' = FALSE
  /\ AwaitsSettle
  /\ seenOnboarded' = (seenOnboarded \/ (AppObserved /\ srvOnboarded))
  /\ ev' = Event("appFetchSuccess")
  /\ UNCHANGED <<chatAll, mealPhase, mealInst, pageVars, parseStatus, mealReqVars,
                 mealServerVars, otherPage, chatComplete, checkInText, otherReqs,
                 srvHasWorkoutPlan, mealOps, parsedFrom>>

\* GET /api/state fails (after the one retry): the data of the query stays
AppFetchFail ==
  /\ appFetching
  /\ appStatus' = "error"
  /\ appFetching' = FALSE
  /\ AwaitsSettle
  /\ ev' = Event("appFetchFail")
  /\ UNCHANGED <<chatAll, mealPhase, mealInst, pageVars, parseStatus, appData,
                 appStale, mealReqVars, mealServerVars, otherPage, chatComplete,
                 checkInText, otherReqs, srvHasWorkoutPlan, mealOps, seenOnboarded,
                 parsedFrom>>

\* onChange of the textarea
typeMealText(text) ==
  /\ mealPhase = "mounted"
  /\ ~TextareaDisabled
  /\ text # mealText
  /\ mealText' = text
  /\ ev' = [Event("typeMealText") EXCEPT !.own = TRUE]
  /\ UNCHANGED <<chatAll, otherVars, seenOnboarded, parsedFrom, mealPhase, mealInst, parsed, confirmed, savedMessage,
                 mutationVars, queryVars, mealReqVars, mealServerVars, mealOps>>

\* onClick of Log meal: parseMealMutation.mutate()
clickLogMeal ==
  /\ mealPhase = "mounted"
  /\ ~LogMealDisabled
  /\ mealOps < MaxMealOps
  /\ mealOps' = mealOps + 1
  /\ parseStatus' = "pending"
  /\ parseReqs' = parseReqs \cup {[inst |-> mealInst, text |-> mealText]}
  /\ ev' = [Event("parseMeal") EXCEPT !.own = TRUE]
  /\ UNCHANGED <<chatAll, otherVars, seenOnboarded, parsedFrom, mealPhase, mealInst, pageVars, saveStatus, genStatus,
                 saveAwait, genAwait, queryVars, saveReqs, genReqs, mealServerVars>>

\* parseMealMutation.onSuccess
ParseSuccess(r, result) ==
  /\ r \in parseReqs
  /\ parseReqs' = parseReqs \ {r}
  /\ LET own == mealPhase = "mounted" /\ r.inst = mealInst
     IN /\ IF own
           THEN /\ savedMessage' = None
                /\ parsed' = result
                /\ confirmed' = Seed(result)
                /\ parseStatus' = "success"
                /\ parsedFrom' = r.text
                /\ UNCHANGED mealText
           ELSE UNCHANGED <<pageVars, parseStatus, parsedFrom>>
        /\ ev' = [Event("parseSuccess") EXCEPT !.own = own]
  /\ UNCHANGED <<chatAll, otherVars, seenOnboarded, mealPhase, mealInst, saveStatus, genStatus, saveAwait,
                 genAwait, queryVars, saveReqs, genReqs, mealServerVars, mealOps>>

\* the parse request fails: parseMealMutation has no onError
ParseFail(r) ==
  /\ r \in parseReqs
  /\ parseReqs' = parseReqs \ {r}
  /\ LET own == mealPhase = "mounted" /\ r.inst = mealInst
     IN /\ parseStatus' = IF own THEN "error" ELSE parseStatus
        /\ ev' = [Event("parseFail") EXCEPT !.own = own]
  /\ UNCHANGED <<chatAll, otherVars, seenOnboarded, parsedFrom, mealPhase, mealInst, pageVars, saveStatus, genStatus,
                 saveAwait, genAwait, queryVars, saveReqs, genReqs, mealServerVars,
                 mealOps>>

\* onChange of a number input of the parsed panel
editConfirmed(f, v) ==
  /\ mealPhase = "mounted"
  /\ ParsedPanelShown
  /\ mealOps < MaxMealOps
  /\ mealOps' = mealOps + 1
  /\ confirmed' = [confirmed EXCEPT ![f] = InputNumber(v)]
  /\ confirmed' # confirmed
  /\ ev' = [Event("editConfirmed") EXCEPT !.own = TRUE]
  /\ UNCHANGED <<chatAll, otherVars, seenOnboarded, parsedFrom, mealPhase, mealInst, mealText, parsed, savedMessage,
                 mutationVars, queryVars, mealReqVars, mealServerVars>>

\* onClick of Confirm & Save: saveMealMutation.mutate()
clickConfirm ==
  /\ mealPhase = "mounted"
  /\ ParsedPanelShown
  /\ ~ConfirmDisabled
  /\ mealOps < MaxMealOps
  /\ mealOps' = mealOps + 1
  /\ saveStatus' = "pending"
  /\ saveReqs' = saveReqs \cup {[inst |-> mealInst, body |-> CommitBody]}
  /\ ev' = [Event("saveMeal") EXCEPT !.own = TRUE]
  /\ UNCHANGED <<chatAll, otherVars, seenOnboarded, parsedFrom, mealPhase, mealInst, pageVars, parseStatus, genStatus,
                 saveAwait, genAwait, queryVars, parseReqs, genReqs, mealServerVars>>

\* clickCancel that clears the fields and keeps the ParseResult
clickCancelKeepsParsed ==
  /\ mealPhase = "mounted"
  /\ ParsedPanelShown
  /\ ~ConfirmDisabled
  /\ confirmed' = NoConfirmed
  /\ ev' = [Event("cancel") EXCEPT !.own = TRUE]
  /\ UNCHANGED <<chatAll, otherVars, seenOnboarded, parsedFrom, mealPhase, mealInst, mealText, parsed, savedMessage,
                 mutationVars, queryVars, mealReqVars, mealServerVars, mealOps>>

\* onClick of Cancel: setParsed(null)
clickCancel ==
  /\ mealPhase = "mounted"
  /\ ParsedPanelShown
  /\ ~ConfirmDisabled
  /\ parsed' = NoParse
  /\ parsedFrom' = None
  /\ ev' = [Event("cancel") EXCEPT !.own = TRUE]
  /\ UNCHANGED <<chatAll, otherVars, seenOnboarded, mealPhase, mealInst, mealText, confirmed, savedMessage,
                 mutationVars, queryVars, mealReqVars, mealServerVars, mealOps>>

\* AfterSave that forgets setMealText('') and setConfirmed({})
AfterSaveKeepsDraft ==
  [mealText |-> mealText, parsed |-> NoParse, confirmed |-> confirmed,
   savedMessage |-> "Saved meal log."]

\* the four setters of saveMealMutation.onSuccess
AfterSave ==
  [mealText |-> "", parsed |-> NoParse, confirmed |-> NoConfirmed,
   savedMessage |-> "Saved meal log."]

\* POST /api/logs/meals is answered with 200: saveMealMutation.onSuccess
SaveSuccess(r) ==
  /\ r \in saveReqs
  /\ saveReqs' = saveReqs \ {r}
  /\ mealLogs' = Append(mealLogs, r.body)
  /\ Invalidate
  /\ LET own == mealPhase = "mounted" /\ r.inst = mealInst
     IN /\ IF own
           THEN /\ savedMessage' = AfterSave.savedMessage
                /\ mealText' = AfterSave.mealText
                /\ parsed' = AfterSave.parsed
                /\ confirmed' = AfterSave.confirmed
                /\ saveAwait' = TRUE
                /\ parsedFrom' = None
           ELSE UNCHANGED <<pageVars, saveAwait, parsedFrom>>
        /\ ev' = [Event("saveSuccess") EXCEPT !.own = own]
  /\ UNCHANGED <<chatAll, otherVars, seenOnboarded, mealPhase, mealInst, parseStatus, saveStatus, genStatus,
                 genAwait, appData, appStatus, parseReqs, genReqs, srvHasPlan,
                 srvOnboarded, mealOps>>

\* SaveFail that resets the draft as onSuccess does (the reset in onSettled)
SaveFailResets(r) ==
  /\ r \in saveReqs
  /\ saveReqs' = saveReqs \ {r}
  /\ LET own == mealPhase = "mounted" /\ r.inst = mealInst
     IN /\ saveStatus' = IF own THEN "error" ELSE saveStatus
        /\ IF own
           THEN /\ mealText' = "" /\ parsed' = NoParse /\ confirmed' = NoConfirmed
                /\ UNCHANGED savedMessage
           ELSE UNCHANGED pageVars
        /\ ev' = [Event("saveFail") EXCEPT !.own = own]
  /\ UNCHANGED <<chatAll, otherVars, seenOnboarded, parsedFrom, mealPhase, mealInst, parseStatus, genStatus,
                 saveAwait, genAwait, queryVars, parseReqs, genReqs, mealServerVars,
                 mealOps>>

\* the commit fails: saveMealMutation has no onError
SaveFail(r) ==
  /\ r \in saveReqs
  /\ saveReqs' = saveReqs \ {r}
  /\ LET own == mealPhase = "mounted" /\ r.inst = mealInst
     IN /\ saveStatus' = IF own THEN "error" ELSE saveStatus
        /\ ev' = [Event("saveFail") EXCEPT !.own = own]
  /\ UNCHANGED <<chatAll, otherVars, seenOnboarded, parsedFrom, mealPhase, mealInst, pageVars, parseStatus, genStatus,
                 saveAwait, genAwait, queryVars, parseReqs, genReqs, mealServerVars,
                 mealOps>>

\* onClick of Generate meal plan (rendered while there is no plan):
\* generateMutation.mutate()
clickGenerate ==
  /\ mealPhase = "mounted"
  /\ ~hasMealPlan
  /\ ~(~onboardingComplete \/ genStatus = "pending")
  /\ mealOps < MaxMealOps
  /\ mealOps' = mealOps + 1
  /\ genStatus' = "pending"
  /\ genReqs' = genReqs \cup {[inst |-> mealInst]}
  /\ ev' = [Event("generate") EXCEPT !.own = TRUE]
  /\ UNCHANGED <<chatAll, otherVars, seenOnboarded, parsedFrom, mealPhase, mealInst, pageVars, parseStatus, saveStatus,
                 saveAwait, genAwait, queryVars, parseReqs, saveReqs, mealServerVars>>

\* POST /api/plans/meal is answered with 200: generateMutation.onSuccess
GenerateSuccess(r) ==
  /\ r \in genReqs
  /\ genReqs' = genReqs \ {r}
  /\ srvHasPlan' = TRUE
  /\ Invalidate
  /\ LET own == mealPhase = "mounted" /\ r.inst = mealInst
     IN /\ genAwait' = (own \/ genAwait)
        /\ ev' = [Event("generateSuccess") EXCEPT !.own = own]
  /\ UNCHANGED <<chatAll, otherVars, seenOnboarded, parsedFrom, mealPhase, mealInst, pageVars, parseStatus, saveStatus,
                 genStatus, saveAwait, appData, appStatus, parseReqs, saveReqs,
                 srvOnboarded, mealLogs, mealOps>>

\* the plan generation fails
GenerateFail(r) ==
  /\ r \in genReqs
  /\ genReqs' = genReqs \ {r}
  /\ LET own == mealPhase = "mounted" /\ r.inst = mealInst
     IN /\ genStatus' = IF own THEN "error" ELSE genStatus
        /\ ev' = [Event("generateFail") EXCEPT !.own = own]
  /\ UNCHANGED <<chatAll, otherVars, seenOnboarded, parsedFrom, mealPhase, mealInst, pageVars, parseStatus, saveStatus,
                 saveAwait, genAwait, queryVars, parseReqs, saveReqs, mealServerVars,
                 mealOps>>

\* the appState query is garbage-collected: no page has observed it for
\* gcTime (the default, 5 minutes) and it is not fetching
AppQueryGc ==
  /\ ~AppObserved
  /\ ~appFetching
  /\ appData # NoData
  /\ appData' = NoData
  /\ appStatus' = "pending"
  /\ appStale' = FALSE
  /\ ev' = Event("appQueryGc")
  /\ UNCHANGED <<chatAll, mealPhase, mealInst, pageVars, mutationVars, appFetching,
                 mealReqVars, mealServerVars, otherVars, mealOps, seenOnboarded,
                 parsedFrom>>

\* the backend marks the onboarding complete (the onboarding conversation,
\* held on the Onboarding page, has collected the profile)
OnboardingCompletes ==
  /\ ~srvOnboarded
  /\ srvOnboarded' = TRUE
  /\ ev' = Event("onboardingCompletes")
  /\ UNCHANGED <<chatAll, mealPhase, mealInst, pageVars, mutationVars, queryVars,
                 mealReqVars, srvHasPlan, mealLogs, otherVars, mealOps, seenOnboarded,
                 parsedFrom>>

\* ------------------------------------------- the Training and Goals pages
OtherPages == {"training", "goals"}

\* what the user can have typed into the check-in textarea
CheckInTexts == {"", " ", "down 1 lb "}

\* checkInText.trim()
CheckInTrim(t) ==
  CASE t = " " -> ""
    [] t = "down 1 lb " -> "down 1 lb"
    [] OTHER -> t

\* data?.training.has_plan ?? false
hasWorkoutPlan == IF appData = NoData THEN FALSE ELSE appData.training_has_plan

\* Goals: useMemo(() => !isLoading && (!onboardingComplete || !chatComplete))
shouldShowChat == ~AppIsLoading /\ (~onboardingComplete \/ ~chatComplete)

\* the mutation of the page: Training has generateMutation, Goals has
\* createCheckInMutation
MutationOf(page) == IF page = "training" THEN "workout" ELSE "checkin"

\* the Training or the Goals route is opened
OtherMount(page, stale) ==
  /\ mealPhase = "unmounted"
  /\ otherPage = "none"
  /\ mealOps < MaxMealOps
  /\ otherPage' = page
  /\ mealInst' = mealInst + 1
  /\ mealOps' = mealOps + 1
  /\ otherStatus' = "idle"
  /\ otherAwait' = FALSE
  /\ chatComplete' = FALSE
  /\ checkInText' = ""
  /\ appFetching' = (appFetching \/ appData = NoData \/ appStale \/ stale)
  /\ seenOnboarded' = (seenOnboarded \/ onboardingComplete)
  /\ ev' = [Event("otherMount") EXCEPT !.own = TRUE]
  /\ UNCHANGED <<chatAll, mealPhase, pageVars, mutationVars, appData, appStatus,
                 appStale, mealReqVars, mealServerVars, otherReqs, srvHasWorkoutPlan,
                 parsedFrom>>

\* the route changes: the state of the page is gone, its requests stay in
\* flight
OtherUnmount ==
  /\ otherPage # "none"
  /\ otherPage' = "none"
  /\ otherStatus' = "idle"
  /\ otherAwait' = FALSE
  /\ chatComplete' = FALSE
  /\ checkInText' = ""
  /\ ev' = Event("otherUnmount")
  /\ UNCHANGED <<chatAll, mealPhase, mealInst, pageVars, mutationVars, queryVars,
                 mealReqVars, mealServerVars, otherReqs, srvHasWorkoutPlan, mealOps,
                 seenOnboarded, parsedFrom>>

\* Training: onClick of Generate workout plan (rendered while there is no plan)
clickGenerateWorkout ==
  /\ otherPage = "training"
  /\ ~hasWorkoutPlan
  /\ ~(~onboardingComplete \/ otherStatus = "pending")
  /\ mealOps < MaxMealOps
  /\ mealOps' = mealOps + 1
  /\ otherStatus' = "pending"
  /\ otherReqs' = otherReqs \cup {[kind |-> "workout", inst |-> mealInst]}
  /\ ev' = [Event("generateWorkout") EXCEPT !.own = TRUE]
  /\ UNCHANGED <<chatAll, mealPhase, mealInst, pageVars, mutationVars, queryVars,
                 mealReqVars, mealServerVars, otherPage, otherAwait, chatComplete,
                 checkInText, srvHasWorkoutPlan, seenOnboarded, parsedFrom>>

\* Goals: onMetadata of the embedded chat with metadata.is_complete
setChatComplete ==
  /\ otherPage = "goals"
  /\ shouldShowChat
  /\ ~chatComplete
  /\ chatComplete' = TRUE
  /\ ev' = [Event("setChatComplete") EXCEPT !.own = TRUE]
  /\ UNCHANGED <<chatAll, mealPhase, mealInst, pageVars, mutationVars, queryVars,
                 mealReqVars, mealServerVars, otherPage, otherStatus, otherAwait,
                 checkInText, otherReqs, srvHasWorkoutPlan, mealOps, seenOnboarded,
                 parsedFrom>>

\* Goals: onChange of the check-in textarea (rendered when the chat is not)
setCheckInText(text) ==
  /\ otherPage = "goals"
  /\ ~shouldShowChat
  /\ text # checkInText
  /\ checkInText' = text
  /\ ev' = [Event("setCheckInText") EXCEPT !.own = TRUE]
  /\ UNCHANGED <<chatAll, mealPhase, mealInst, pageVars, mutationVars, queryVars,
                 mealReqVars, mealServerVars, otherPage, otherStatus, otherAwait,
                 chatComplete, otherReqs, srvHasWorkoutPlan, mealOps, seenOnboarded,
                 parsedFrom>>

\* Goals: onClick of Save check-in: createCheckInMutation.mutate()
clickSaveCheckIn ==
  /\ otherPage = "goals"
  /\ ~shouldShowChat
  /\ ~(CheckInTrim(checkInText) = "" \/ otherStatus = "pending")
  /\ mealOps < MaxMealOps
  /\ mealOps' = mealOps + 1
  /\ otherStatus' = "pending"
  /\ otherReqs' = otherReqs \cup {[kind |-> "checkin", inst |-> mealInst]}
  /\ ev' = [Event("saveCheckIn") EXCEPT !.own = TRUE]
  /\ UNCHANGED <<chatAll, mealPhase, mealInst, pageVars, mutationVars, queryVars,
                 mealReqVars, mealServerVars, otherPage, otherAwait, chatComplete,
                 checkInText, srvHasWorkoutPlan, seenOnboarded, parsedFrom>>

\* POST /api/plans/workout or POST /api/logs/goals is answered with 200: the
\* onSuccess of the mutation (it runs whether or not the page is still there)
OtherSuccess(r) ==
  /\ r \in otherReqs
  /\ otherReqs' = otherReqs \ {r}
  /\ srvHasWorkoutPlan' = (srvHasWorkoutPlan \/ r.kind = "workout")
  /\ Invalidate
  /\ LET own == otherPage # "none" /\ MutationOf(otherPage) = r.kind /\ r.inst = mealInst
     IN /\ otherAwait' = (own \/ otherAwait)
        /\ checkInText' = IF own /\ r.kind = "checkin" THEN "" ELSE checkInText
        /\ ev' = [Event(IF r.kind = "workout" THEN "workoutSuccess" ELSE "checkInSuccess")
                    EXCEPT !.own = own]
  /\ UNCHANGED <<chatAll, mealPhase, mealInst, pageVars, mutationVars, appData,
                 appStatus, mealReqVars, mealServerVars, otherPage, otherStatus,
                 chatComplete, mealOps, seenOnboarded, parsedFrom>>

\* the request of the Training or Goals page fails
OtherFail(r) ==
  /\ r \in otherReqs
  /\ otherReqs' = otherReqs \ {r}
  /\ LET own == otherPage # "none" /\ MutationOf(otherPage) = r.kind /\ r.inst = mealInst
     IN /\ otherStatus' = IF own THEN "error" ELSE otherStatus
        /\ ev' = [Event(IF r.kind = "workout" THEN "workoutFail" ELSE "checkInFail")
                    EXCEPT !.own = own]
  /\ UNCHANGED <<chatAll, mealPhase, mealInst, pageVars, mutationVars, queryVars,
                 mealReqVars, mealServerVars, otherPage, otherAwait, chatComplete,
                 checkInText, srvHasWorkoutPlan, mealOps, seenOnboarded, parsedFrom>>

MealInit ==
  /\ storage = "ok"
  /\ ChatStart
  /\ MealStart
  /\ srvHasPlan \in BOOLEAN
  /\ srvOnboarded \in BOOLEAN

MealNext ==
  \/ \E stale \in BOOLEAN : MealMount(stale)
  \/ MealUnmount
  \/ AppFetchSuccess
  \/ AppFetchFail
  \/ \E text \in MealTexts : typeMealText(text)
  \/ clickLogMeal
  \/ \E r \in parseReqs, result \in ParseResults : ParseSuccess(r, result)
  \/ \E r \in parseReqs : ParseFail(r)
  \/ \E f \in Fields, v \in NumberInputs : editConfirmed(f, v)
  \/ clickConfirm
  \/ clickCancel
  \/ \E r \in saveReqs : SaveSuccess(r)
  \/ \E r \in saveReqs : SaveFail(r)
  \/ clickGenerate
  \/ \E r \in genReqs : GenerateSuccess(r)
  \/ \E r \in genReqs : GenerateFail(r)
  \/ AppQueryGc
  \/ OnboardingCompletes
  \/ \E page \in OtherPages, stale \in BOOLEAN : OtherMount(page, stale)
  \/ OtherUnmount
  \/ clickGenerateWorkout
  \/ setChatComplete
  \/ \E text \in CheckInTexts : setCheckInText(text)
  \/ clickSaveCheckIn
  \/ \E r \in otherReqs : OtherSuccess(r)
  \/ \E r \in otherReqs : OtherFail(r)

MealSpec == MealInit /\ [][MealNext]_vars

\* ======================================================================
\* Properties
\* ======================================================================
IsTemp(msg) == msg.id[1] = "temp"

IsError(msg) == msg.id[1] = "error"

IsServer(msg) == msg.id[1] = "srv"

IsPrefix(a, b) == Len(a) <= Len(b) /\ SubSeq(b, 1, Len(a)) = a

Last(seq) == seq[Len(seq)]

NonTemp(seq) == SelectSeq(seq, LAMBDA msg : ~IsTemp(msg))

\* the POST of the mounted instance that is in flight (there is at most one)
OwnSends == {r \in sends : phase = "mounted" /\ r.inst = inst}

OwnSend == CHOOSE r \in OwnSends : TRUE

\* the step is the continuation of the mounted instance's POST
OwnStep(op) == ev'.op = op /\ ev'.own /\ OwnSends # {}

\* ---------------------------------------------------------------------
\* C1: while a send is in flight (isLoading), a submit through ChatInput is
\* rejected: it issues no POST and leaves the message list (and the rest of
\* the chat) as it was.
C1_SubmitRejectedWhileSending ==
  [][(isLoading /\ ev'.op \in {"handleSubmit", "submitEmpty", "submitDisabled"})
       => /\ ev'.op # "handleSubmit"
          /\ posts' = posts
          /\ sends' = sends
          /\ messages' = messages]_vars

\* a submit with text was rejected while the POST of the instance is in flight
C1_Witness ==
  /\ ev.op = "submitDisabled"
  /\ isLoading /\ ~isLoadingHistory
  /\ OwnSends # {}
  /\ Len(messages) > 0 /\ IsTemp(Last(messages))

\* ---------------------------------------------------------------------
\* C2: when the POST fails, the optimistic message is removed, exactly one
\* assistant-role error message is appended, isLoading is false, and the
\* conversation id (still the one of the submit), the active agent, the
\* persisted mapping and every other message are unchanged.
C2_FailureRollsBack ==
  [][OwnStep("sendFail")
       => /\ Len(messages) > 0
          /\ Last(messages).id = OwnSend.tempUserMessageId
          /\ Len(messages') = Len(messages)
          /\ SubSeq(messages', 1, Len(messages) - 1)
               = SubSeq(messages, 1, Len(messages) - 1)
          /\ IsError(Last(messages')) /\ Last(messages').role = "assistant"
          /\ \A i \in 1..Len(messages') : ~IsTemp(messages'[i])
          /\ ~isLoading'
          /\ conversationId' = conversationId
          /\ conversationId' = OwnSend.conversationId
          /\ currentAgent' = currentAgent
          /\ localStorage' = localStorage]_vars

\* a send in an existing conversation with loaded history has failed
C2_Witness ==
  /\ ev.op = "sendFail" /\ ev.own
  /\ conversationId # NoConv
  /\ Len(messages) >= 3
  /\ IsError(Last(messages))
  /\ IsServer(messages[1])

\* ---------------------------------------------------------------------
\* C3: when the POST succeeds, the message list becomes the previous list
\* without the temporary entry, followed by the server's user_message and
\* assistant_message (the two messages the server stored); no temporary
\* entry remains.
C3_SuccessReconciles ==
  [][OwnStep("sendSuccess")
       => LET tr == transcript'[ResponseConversationId(OwnSend)]
          IN /\ messages' = WithoutTemp(messages, OwnSend.tempUserMessageId)
                              \o SubSeq(tr, Len(tr) - 1, Len(tr))
             /\ \A i \in 1..Len(messages') : ~IsTemp(messages'[i])]_vars

\* ---------------------------------------------------------------------
\* C4: within one mounted chat the visible list only grows by append: what
\* was visible before a step (optimistic entries apart) is a prefix of what
\* is visible after it, also when a history load replaces the list (stated
\* for a browser whose storage works).
C4_AppendOnly ==
  [][(storage = "ok" /\ phase = "mounted" /\ phase' = "mounted" /\ inst' = inst)
       => IsPrefix(NonTemp(messages), messages')]_vars

\* ---------------------------------------------------------------------
\* C5 as stated: the visible sequence (the optimistic entry apart) is a
\* prefix of the server-side transcript of the chat's conversation.
TrueTranscript == IF conversationId = NoConv THEN <<>> ELSE transcript[conversationId]

C6_LockedAgentKept ==
  [][(OwnStep("sendSuccess") /\ lockAgent)
       => /\ currentAgent' = currentAgent
          /\ currentAgent' = initialAgent]_vars

\* a locked chat has reconciled a response that proposed another identity
C6_Witness ==
  /\ ev.op = "sendSuccess" /\ ev.own
  /\ lockAgent
  /\ ev.meta \in AgentType
  /\ ev.meta # currentAgent
  /\ phase = "mounted"

\* ---------------------------------------------------------------------
\* the reference function of the handoff policy
next_identity(locked, current, proposed) == IF locked THEN current ELSE proposed

\* C7: after a successful response whose metadata.agent_type is one of the
\* four identities, the active agent is next_identity(lockAgent, current,
\* proposed).
C7_HandoffIsNextIdentity ==
  [][(OwnStep("sendSuccess") /\ ev'.meta \in AgentType)
       => currentAgent' = next_identity(lockAgent, currentAgent, ev'.meta)]_vars

\* an unlocked chat without switcher was handed off to another identity
C7_Witness ==
  /\ ev.op = "sendSuccess" /\ ev.own
  /\ ~lockAgent /\ ~showAgentSwitcher
  /\ ev.meta \in AgentType
  /\ currentAgent = ev.meta
  /\ currentAgent # initialAgent
  /\ phase = "mounted"

\* ---------------------------------------------------------------------
\* the POST and the GET a step has resolved
ResolvedSend == CHOOSE r \in sends : r \notin sends'

ResolvedFetch == CHOOSE f \in fetches : f \notin fetches'

\* C8: when a POST issued without conversation id succeeds, the returned id
\* is written under the storage key of the agent that was active at the
\* submit and under no other key (it is written whenever the storage accepts
\* writes), and onConversationStart is called with that id.
C8_PersistedUnderSubmitAgent ==
  [][(ev'.op = "sendSuccess" /\ ResolvedSend.conversationId = NoConv)
       => LET cid == ResponseConversationId(ResolvedSend)
              key == STORAGE_KEYS[ResolvedSend.currentAgent]
          IN /\ \A k \in StorageKeyNames \ {key} : localStorage'[k] = localStorage[k]
             /\ localStorage'[key] = IF storage = "ok" THEN cid ELSE localStorage[key]
             /\ ResolvedSend.onConversationStart => ev'.started = cid]_vars

\* the first response of a chat handed the chat off to another identity: the
\* id is under the key of the agent of the submit, the callback got the id
C8_Witness ==
  /\ ev.op = "sendSuccess" /\ ev.own
  /\ ~showAgentSwitcher
  /\ ev.started # NoConv /\ ev.started = conversationId
  /\ currentAgent # initialAgent
  /\ localStorage[STORAGE_KEYS[initialAgent]] = conversationId
  /\ \A k \in StorageKeyNames \ {STORAGE_KEYS[initialAgent]} : localStorage[k] = NoConv

\* ---------------------------------------------------------------------
\* C9: after the history GET of conversation X was answered with 404, no
\* agent's storage key maps to X, and the chat that fetched has no
\* conversation id, so that its next send creates a conversation.
C9_NotFoundClearsOwner ==
  [][(ev'.op = "fetch404" /\ storage = "ok")
       => /\ \A k \in StorageKeyNames : localStorage'[k] # ResolvedFetch.id
          /\ ev'.own => conversationId' = NoConv]_vars

C11_NotFoundResetsChat ==
  [][(ev'.op = "fetch404" /\ ev'.own /\ storage = "ok")
       => /\ conversationId' = NoConv
          /\ messages' = <<>>]_vars

\* ---------------------------------------------------------------------
\* C12: every POST /api/chat in flight carries no conversation_id or the id
\* of a conversation whose agent_type is the agent_type of the request.
C12_ConversationOfRequestAgent ==
  \A r \in sends :
    r.conversationId = NoConv \/ convAgent[r.conversationId] = r.currentAgent

\* ---------------------------------------------------------------------
\* C13: a storage key that holds a conversation id keeps it: a step either
\* leaves the entry as it is or, on a 404 of the history GET, clears it.
C13_PersistedIdStable ==
  [][\A k \in StorageKeyNames :
       localStorage[k] # NoConv
         => \/ localStorage'[k] = localStorage[k]
            \/ localStorage'[k] = NoConv /\ ev'.op = "fetch404"]_vars

\* ---------------------------------------------------------------------
\* C22: with a storage that fails, a successful POST of the mounted chat is
\* still reconciled as a success: the two server messages are appended, no
\* error message is appended, and the conversation id of the response is the
\* chat's conversation id from then on.
C22_StorageFailureNotFatal ==
  [][(OwnStep("sendSuccess") /\ storage # "ok")
       => LET tr == transcript'[ResponseConversationId(OwnSend)]
          IN /\ messages' = WithoutTemp(messages, OwnSend.tempUserMessageId)
                              \o SubSeq(tr, Len(tr) - 1, Len(tr))
             /\ \A i \in 1..Len(messages') : ~IsError(messages'[i])
             /\ conversationId' = ResponseConversationId(OwnSend)]_vars

\* ---------------------------------------------------------------------
\* C23: the response of a POST is never dropped: whenever a POST is answered
\* with 200, the two messages the server stored are in a message list of the
\* client afterwards, whether or not the chat that sent it is still mounted
\* (stated for a storage that works and a known metadata.agent_type).
C23_ResponseNeverDropped ==
  [][(ev'.op = "sendSuccess" /\ storage = "ok" /\ ev'.meta # UnknownAgent)
       => \E s \in sends \ sends' :
            LET tr == transcript'[ResponseConversationId(s)]
            IN /\ phase' = "mounted"
               /\ Len(messages') >= 2
               /\ SubSeq(messages', Len(messages') - 1, Len(messages'))
                    = SubSeq(tr, Len(tr) - 1, Len(tr))]_vars

\* ---------------------------------------------------------------------
\* C24: the active agent of the chat is always one of the four AgentTypes.
C24_ActiveAgentKnown == currentAgent \in AgentType

\* ---------------------------------------------------------------------
\* the history loads of the mounted instance that are in flight
OwnFetches == {f \in fetches : phase = "mounted" /\ f.inst = inst}

\* C29: the mounted chat never has a history load and a POST in flight at
\* the same time, and when a history response replaces the message list the
\* list holds no optimistic entry and no POST of the chat is in flight.
C29_LoadAndSendExclusive ==
  [][/\ OwnSends' = {} \/ OwnFetches' = {}
     /\ (ev'.op = "fetchSuccess" /\ ev'.own)
          => /\ OwnSends = {}
             /\ ~isLoading
             /\ \A i \in 1..Len(messages) : ~IsTemp(messages[i])]_vars

\* the history of a conversation was loaded after a send of the same chat
\* had created it, and a submit was possible only after the load
C29_Witness ==
  /\ ev.op = "fetchSuccess" /\ ev.own
  /\ posts >= 1
  /\ Len(messages) >= 2
  /\ ~InputDisabled
  /\ OwnSends = {} /\ OwnFetches = {}

\* ---------------------------------------------------------------------
\* C30: when every request is answered, a chat whose input is disabled
\* (isLoading or isLoadingHistory) gets an enabled input again, unless the
\* user leaves the page first.
C30_EventuallyIdle ==
  (phase = "mounted" /\ InputDisabled)
    ~> ((phase = "mounted" /\ ~InputDisabled) \/ phase = "unmounted")

\* ======================================================================
\* Properties of the Nutrition page (MealSpec)
\* ======================================================================
\* the requests of the mounted Nutrition instance that are in flight
OwnParseReqs == {r \in parseReqs : mealPhase = "mounted" /\ r.inst = mealInst}

OwnSaveReqs == {r \in saveReqs : mealPhase = "mounted" /\ r.inst = mealInst}

\* ---------------------------------------------------------------------
\* C14: whenever a commit request is sent, parsed is a ParseResult (not
\* null) and the request carries it as parsed_data.
C14_CommitHasParseResult ==
  [][ev'.op = "saveMeal"
       => /\ parsed \in ParseResults
          /\ saveReqs' # saveReqs
          /\ \A r \in saveReqs' \ saveReqs : r.body.parsed_data = parsed]_vars

\* a commit is in flight that carries the displayed ParseResult and edited fields
C14_Witness ==
  /\ ev.op = "saveMeal"
  /\ saveStatus = "pending"
  /\ \E r \in OwnSaveReqs :
       /\ r.body.parsed_data = parsed
       /\ r.body.confirmed_data.fields # Seed(parsed)

\* ---------------------------------------------------------------------
\* C15: once a new parse has been submitted, the earlier ParseResult cannot
\* be committed: a commit is sent only when the latest parse request of the
\* page has succeeded (its result is the one displayed).
C15_NewParseInvalidates ==
  [][ev'.op = "saveMeal" => parseStatus = "success"]_vars

\* ---------------------------------------------------------------------
\* C16 as stated: a parse request is issued only with has_plan true in the
\* loaded app state and while no parse and no save request is in flight.
C16_ParseOnlyWhenNothingInFlight ==
  [][ev'.op = "parseMeal"
       => /\ appData # NoData /\ appData.has_plan
          /\ parseReqs = {}
          /\ saveReqs = {}]_vars

\* C16: a parse request is issued only with has_plan true in the loaded app
\* state, with non-blank text, and while no parse and no save started by the
\* same mounted page is pending or in flight.
C16_ParseGated ==
  [][ev'.op = "parseMeal"
       => /\ appData # NoData /\ appData.has_plan
          /\ ~AppIsLoading
          /\ MealTrim(mealText) # ""
          /\ parseStatus # "pending" /\ saveStatus # "pending"
          /\ OwnParseReqs = {}
          /\ OwnSaveReqs = {}
          /\ Cardinality(parseReqs') = Cardinality(parseReqs) + 1]_vars

\* a parse was started after a commit of the same page has completed
C16_Witness ==
  /\ ev.op = "parseMeal"
  /\ Len(mealLogs) = 1
  /\ saveStatus = "success"
  /\ OwnParseReqs # {}
  /\ appData # NoData /\ appData.has_plan

\* ---------------------------------------------------------------------
\* C17: when a commit succeeds, the raw text is cleared, there is no
\* ParseResult and every confirmation field is unset.
C17_CommitResets ==
  [][(ev'.op = "saveSuccess" /\ ev'.own)
       => /\ mealText' = ""
          /\ parsed' = NoParse
          /\ confirmed' = NoConfirmed]_vars

\* a commit with text and an edited field has succeeded and cleared the page
C17_Witness ==
  /\ ev.op = "saveSuccess" /\ ev.own
  /\ mealText = "" /\ parsed = NoParse /\ confirmed = NoConfirmed
  /\ Len(mealLogs) = 1
  /\ mealLogs[1].raw_text # ""
  /\ mealLogs[1].confirmed_data.fields # NoConfirmed

\* ---------------------------------------------------------------------
\* C18: Cancel discards the ParseResult and issues no request and changes
\* nothing on the server; a commit is sent only with a ParseResult, and a
\* ParseResult appears only by a successful parse.
C18_CancelDiscards ==
  [][/\ ev'.op = "cancel"
          => /\ parsed' = NoParse
             /\ UNCHANGED <<mealReqVars, mealServerVars>>
     /\ ev'.op = "saveMeal" => parsed # NoParse
     /\ (parsed = NoParse /\ parsed' # NoParse) => ev'.op = "parseSuccess"]_vars

\* a ParseResult with an edited field was cancelled: nothing was sent
C18_Witness ==
  /\ ev.op = "cancel"
  /\ parsed = NoParse
  /\ confirmed # NoConfirmed
  /\ MealTrim(mealText) # ""
  /\ saveReqs = {} /\ mealLogs = <<>>

\* ---------------------------------------------------------------------
\* C19: a failed parse leaves the raw text (and the rest of the draft) as it
\* is, a failed commit leaves the raw text, the ParseResult and the
\* confirmation fields as they are, and the mutation is no longer pending.
C19_FailureKeepsInput ==
  [][/\ (ev'.op = "parseFail" /\ ev'.own)
          => /\ UNCHANGED <<mealText, parsed, confirmed>>
             /\ parseStatus' # "pending"
     /\ (ev'.op = "saveFail" /\ ev'.own)
          => /\ UNCHANGED <<mealText, parsed, confirmed>>
             /\ saveStatus' # "pending"]_vars

\* a commit with an edited field has failed: the draft is still there
C19_Witness ==
  /\ ev.op = "saveFail" /\ ev.own
  /\ parsed \in ParseResults
  /\ confirmed # Seed(parsed)
  /\ MealTrim(mealText) # ""
  /\ saveStatus = "error"

\* ---------------------------------------------------------------------
\* C20: after a failed parse and after a failed commit the "Log a meal"
\* panel shows an error.
C20_FailureSurfaced ==
  [][(ev'.op \in {"parseFail", "saveFail"} /\ ev'.own)
       => "error" \in MealPanelShows']_vars

\* ---------------------------------------------------------------------
\* C21: once a page has rendered with onboardingComplete true, every page
\* that is mounted later renders with onboardingComplete true.
C21_OnboardingMonotonic ==
  (seenOnboarded /\ AppObserved) => onboardingComplete

\* ---------------------------------------------------------------------
\* C25: when a meal-plan generation, a workout-plan generation, a meal-log
\* commit or a goal check-in succeeds, the appState query is invalidated: it
\* is refetched at once when a page observes it, and otherwise marked stale,
\* which makes the next page that mounts refetch it.
C25_MutationInvalidates ==
  [][/\ ev'.op \in {"generateSuccess", "workoutSuccess", "saveSuccess", "checkInSuccess"}
          => IF AppObserved THEN appFetching' ELSE appStale'
     /\ (ev'.op \in {"mealMount", "otherMount"} /\ appStale) => appFetching'
     /\ (appStale /\ ~appStale') => ev'.op \in {"appFetchSuccess", "appQueryGc"}]_vars

\* a goal check-in has succeeded after a workout plan was generated, and the
\* refetch it caused is in flight
C25_Witness ==
  /\ ev.op = "checkInSuccess" /\ ev.own
  /\ srvHasWorkoutPlan
  /\ appData # NoData /\ ~appData.training_has_plan
  /\ appFetching
  /\ checkInText = ""

\* ---------------------------------------------------------------------
\* C26: a successful parse seeds every field that is missing or null in the
\* estimate as unset and every other field, 0 included, with its estimate;
\* an edit sets one field to unset when the input is cleared and to the
\* number typed otherwise (0 for "0"), and the input shows an unset field
\* empty and 0 as "0"; a commit sends the fields as they are.
C26_UnsetNotZero ==
  [][/\ (ev'.op = "parseSuccess" /\ ev'.own)
          => \A f \in Fields :
               /\ parsed'.estimate[f] \in {Unset, NullNum} => confirmed'[f] = Unset
               /\ parsed'.estimate[f] \notin {Unset, NullNum}
                    => confirmed'[f] = parsed'.estimate[f]
     /\ ev'.op = "editConfirmed"
          => \E f \in Fields, v \in NumberInputs :
               /\ confirmed' = [confirmed EXCEPT ![f] = InputNumber(v)]
               /\ (confirmed'[f] = Unset) = (v = "")
               /\ (confirmed'[f] = 0) = (v = "0")
               /\ InputValue(confirmed'[f]) = v
     /\ ev'.op = "saveMeal"
          => \A r \in saveReqs' \ saveReqs :
               r.body.confirmed_data.fields = confirmed]_vars

\* a commit is in flight with a field seeded 0, a null and a missing field
\* unset, and a field the user has cleared
C26_Witness ==
  /\ ev.op = "saveMeal"
  /\ parsed \in ParseResults
  /\ parsed.estimate["calories"] = 850
  /\ parsed.estimate["protein_g"] = 0
  /\ parsed.estimate["carbs_g"] = NullNum
  /\ parsed.estimate["fat_g"] = Unset
  /\ \E r \in OwnSaveReqs :
       r.body.confirmed_data.fields =
         [f \in Fields |-> IF f = "protein_g" THEN 0 ELSE Unset]

\* ---------------------------------------------------------------------
\* C27: the raw_text of every commit is the text of the parse request that
\* produced its parsed_data.
C27_RawTextIsParsedText ==
  [][ev'.op = "saveMeal"
       => \A r \in saveReqs' \ saveReqs : r.body.raw_text = parsedFrom]_vars

\* ---------------------------------------------------------------------
\* C28: a parse request and a commit request of the mounted page are never
\* in flight at the same time.
C28_ParseCommitExclusive == OwnParseReqs = {} \/ OwnSaveReqs = {}
====
